---- MODULE Spec2Model ----
(***************************************************************************)
(* Cashflow scheduler: the DP solver (cashflow/engines/dp.py), the prefix  *)
(* model and ledger builder (cashflow/core/model.py, ledger.py), the       *)
(* validator (cashflow/core/validate.py), the day-1 part of the CP model   *)
(* (cashflow/engines/cpsat.py) and the resume entry point                  *)
(* (cashflow-scheduler/core/__init__.py).                                  *)
(*                                                                         *)
(* The code's horizon is the literal 30; the model is parameterised by     *)
(* Horizon so that the set of all action vectors can be enumerated.  The   *)
(* window length 7 and the 6-entry off history are kept as in the code.    *)
(***************************************************************************)
EXTENDS Integers, Sequences, FiniteSets, TLC

\* Number of days of the month that is modelled (30 in the code).
Horizon == 9

\* Python's None, for an unlocked plan.actions slot and an absent back-pointer.
None == "None"

\* model.py: SHIFT_NET_CENTS
SHIFT_NET_CENTS == ("O" :> 0) @@ ("Spark" :> 10000)

\* model.py: MAX_AMOUNT_CENTS
MAX_AMOUNT_CENTS == 1000000000

\* Length of the rolling window of the off-off rule (dp.py `day >= 7`).
WindowLen == 7

\* Number of off flags remembered in the DP state (dp.py `last7[-6:]`).
HistoryLen == 6

Abs(x) == IF x < 0 THEN -x ELSE x

Max2(a, b) == IF a >= b THEN a ELSE b

----------------------------------------------------------------------------
(* Money *)

\* to_cents on a decimal amount given in thousandths of a dollar: quantize
\* to the hundredth with ROUND_HALF_UP (ties away from zero), then reject
\* values beyond MAX_AMOUNT_CENTS.  Result: [ok, cents].
\* model.py: to_cents on a decimal amount with up to three fractional digits,
\* given as sign, magnitude in hundredths of a dollar, and the third
\* fractional digit.  quantize(0.01, ROUND_HALF_UP) rounds the magnitude, a
\* half away from zero; the result is rejected when abs(cents) exceeds
\* MAX_AMOUNT_CENTS.
ToCentsRejectsAtBound(neg, hundredths, third) ==
    LET mag == hundredths + (IF third >= 5 THEN 1 ELSE 0)
        cents == IF neg THEN -mag ELSE mag
    IN  IF Abs(cents) >= MAX_AMOUNT_CENTS
        THEN [ok |-> FALSE, cents |-> 0]
        ELSE [ok |-> TRUE, cents |-> cents]

ToCentsDecimal(neg, hundredths, third) ==
    LET mag == hundredths + (IF third >= 5 THEN 1 ELSE 0)
        cents == IF neg THEN -mag ELSE mag
    IN  IF Abs(cents) > MAX_AMOUNT_CENTS
        THEN [ok |-> FALSE, cents |-> 0]
        ELSE [ok |-> TRUE, cents |-> cents]

\* model.py: to_cents on an amount given in thousandths of a dollar.
to_cents(mills) ==
    ToCentsDecimal(mills < 0, Abs(mills) \div 10, Abs(mills) % 10)

----------------------------------------------------------------------------
(* Prefix model *)

RECURSIVE SumOnDay(_, _, _)
\* Sum of amount_cents of the entries items[1..n] whose day is t.
SumOnDay(items, n, t) ==
    IF n = 0 THEN 0
    ELSE SumOnDay(items, n - 1, t)
         + (IF items[n].day = t THEN items[n].amount_cents ELSE 0)

RECURSIVE SumRange(_, _, _)
\* sum(f[a:b+1]) for a function f on the integers.
SumRange(f, a, b) == IF a > b THEN 0 ELSE f[b] + SumRange(f, a, b - 1)

\* Mutant of build_prefix_arrays: base[t] is recorded before the bills of
\* day t are subtracted.
BuildPrefixArraysBaseBeforeBills(plan) ==
    LET dep == [t \in 0..Horizon |->
                   IF t = 0 THEN 0
                   ELSE SumOnDay(plan.deposits, Len(plan.deposits), t)
                        + SumOnDay(plan.manual_adjustments,
                                   Len(plan.manual_adjustments), t)]
        bills == [t \in 0..Horizon |->
                   IF t = 0 THEN 0
                   ELSE SumOnDay(plan.bills, Len(plan.bills), t)]
        base == [t \in 0..Horizon |->
                   IF t = 0 THEN 0
                   ELSE plan.start_balance_cents
                        + SumRange(dep, 1, t) - SumRange(bills, 1, t - 1)]
    IN  [dep |-> dep, bills |-> bills, base |-> base]

\* model.py: build_prefix_arrays.  Entries whose day is outside 1..Horizon are
\* ignored; index 0 of each array stays 0.
build_prefix_arrays(plan) ==
    LET dep == [t \in 0..Horizon |->
                   IF t = 0 THEN 0
                   ELSE SumOnDay(plan.deposits, Len(plan.deposits), t)
                        + SumOnDay(plan.manual_adjustments,
                                   Len(plan.manual_adjustments), t)]
        bills == [t \in 0..Horizon |->
                   IF t = 0 THEN 0
                   ELSE SumOnDay(plan.bills, Len(plan.bills), t)]
        base == [t \in 0..Horizon |->
                   IF t = 0 THEN 0
                   ELSE plan.start_balance_cents
                        + SumRange(dep, 1, t) - SumRange(bills, 1, t)]
    IN  [dep |-> dep, bills |-> bills, base |-> base]

\* model.py: pre_rent_base_on_day30
pre_rent_base_on_day30(plan, dep, bills) ==
    plan.start_balance_cents + SumRange(dep, 1, Horizon)
        - SumRange(bills, 1, Horizon - 1)

----------------------------------------------------------------------------
(* Ledger builder *)

RECURSIVE NetThrough(_, _)
\* net_so_far after the first t actions.
NetThrough(actions, t) ==
    IF t = 0 THEN 0 ELSE NetThrough(actions, t - 1) + SHIFT_NET_CENTS[actions[t]]

\* Mutant of build_ledger: the closing leaves out the net of the day itself.
BuildLedgerNoToday(plan, actions) ==
    LET pa == build_prefix_arrays(plan)
    IN  [t \in 1..Horizon |->
            LET net_so_far == NetThrough(actions, t - 1)
                net_today == SHIFT_NET_CENTS[actions[t]]
            IN  [day |-> t,
                 opening_cents |-> (plan.start_balance_cents
                                     + SumRange(pa.dep, 1, t - 1)
                                     - SumRange(pa.bills, 1, t - 1)) + net_so_far,
                 deposit_cents |-> pa.dep[t],
                 action |-> actions[t],
                 net_cents |-> net_today,
                 bills_cents |-> pa.bills[t],
                 closing_cents |-> pa.base[t] + net_so_far]]

\* ledger.py: build_ledger (actions over the alphabet, length Horizon)
build_ledger(plan, actions) ==
    LET pa == build_prefix_arrays(plan)
    IN  [t \in 1..Horizon |->
            LET net_so_far == NetThrough(actions, t - 1)
                net_today == SHIFT_NET_CENTS[actions[t]]
            IN  [day |-> t,
                 opening_cents |-> (plan.start_balance_cents
                                     + SumRange(pa.dep, 1, t - 1)
                                     - SumRange(pa.bills, 1, t - 1)) + net_so_far,
                 deposit_cents |-> pa.dep[t],
                 action |-> actions[t],
                 net_cents |-> net_today,
                 bills_cents |-> pa.bills[t],
                 closing_cents |-> pa.base[t] + net_so_far + net_today]]

----------------------------------------------------------------------------
(* DP solver *)

\* Mutant of _allowed_actions: the day-1 rule tested before the lock.
AllowedActionsDay1First(day, locked, forbid_large_after_day1) ==
    IF day = 1 THEN <<"Spark">>
    ELSE IF locked # None THEN <<locked>>
    ELSE IF forbid_large_after_day1 THEN <<"O">>
    ELSE <<"O", "Spark">>

\* dp.py: _allowed_actions
_allowed_actions(day, locked, forbid_large_after_day1) ==
    IF locked # None THEN <<locked>>
    ELSE IF day = 1 THEN <<"Spark">>
    ELSE IF forbid_large_after_day1 THEN <<"O">>
    ELSE <<"O", "Spark">>

\* Mutant of _has_off_off: `or` in place of `and` between the two flags.
HasOffOffEither(vec) ==
    \E i \in 1..(Len(vec) - 1) : vec[i] = 1 \/ vec[i + 1] = 1

\* dp.py: _has_off_off
_has_off_off(vec) ==
    \E i \in 1..(Len(vec) - 1) : vec[i] = 1 /\ vec[i + 1] = 1

\* Python's seq[-n:] : the last n elements, or all of them when there are fewer.
LastN(seq, n) ==
    IF Len(seq) <= n THEN seq ELSE SubSeq(seq, Len(seq) - n + 1, Len(seq))

\* dict.get on a layer kept in insertion order: the position of key, 0 if absent.
KeyIndex(layer, key) ==
    IF \E i \in 1..Len(layer) : layer[i].key = key
    THEN CHOOSE i \in 1..Len(layer) : layer[i].key = key
    ELSE 0

\* dp.py: locked = plan.actions[day - 1] if day - 1 < len(plan.actions) else None
LockedOn(plan, day) ==
    IF day <= Len(plan.actions) THEN plan.actions[day] ELSE None

\* Mutant of Dominates: the comparison reversed.
DominatesReversed(work_used_new, b2b_new, existing_b2b) ==
    b2b_new > existing_b2b

\* dp.py lines 116-122: the per-key dominance test (replace the incumbent?)
Dominates(work_used_new, b2b_new, existing_b2b) ==
    b2b_new < existing_b2b

\* Mutant of PrunedByBounds: one remaining day too few in the capacity test.
PrunedByBoundsShort(net_new, days_left, min_net, max_net, max_day_net) ==
    \/ net_new > max_net
    \/ net_new + max_day_net * (days_left - 1) < min_net

\* dp.py lines 83-86: pruning by the global net bounds
PrunedByBounds(net_new, days_left, min_net, max_net, max_day_net) ==
    \/ net_new > max_net
    \/ net_new + max_day_net * days_left < min_net

\* dp.py lines 92-94: off-off window check on the 7-day view
WindowOk(day, last7) ==
    day >= WindowLen => _has_off_off(last7)

\* Mutant of BalanceFeasible: the base of the previous day is tested.
BalanceFeasiblePrevDay(base, day, net_new) ==
    base[day - 1] + net_new >= 0

\* dp.py lines 98-101: balance feasibility for day t
BalanceFeasible(base, day, net_new) ==
    base[day] + net_new >= 0

\* Mutant of RentGuardOk: the guard is tested against the closing base of
\* the last day being non-negative instead of the pre-rent balance.
RentGuardOkDropped(day, pre30, net_new, rent_guard_cents) ==
    day = Horizon => pre30 + net_new >= 0

\* dp.py lines 102-105: day-30 pre-rent guard
RentGuardOk(day, pre30, net_new, rent_guard_cents) ==
    day = Horizon => pre30 + net_new >= rent_guard_cents

\* Mutant of Transition: a dominating entry overwrites the stored b2b but
\* keeps the back-pointer of the entry it replaces
TransitionKeepsBack(ctx, day, entry, a, cur) ==
    LET last6_off == entry.key[1]
        prevW == entry.key[2]
        workUsed == entry.key[3]
        net == entry.key[4]
        will_work == IF a # "O" THEN 1 ELSE 0
        work_used_new == workUsed + will_work
        net_new == net + SHIFT_NET_CENTS[a]
        days_left == Horizon - day
        off_today == IF a = "O" THEN 1 ELSE 0
        last7 == Append(last6_off, off_today)
        last6_new == LastN(last7, HistoryLen)
        b2b_new == entry.b2b + (IF prevW = 1 /\ will_work = 1 THEN 1 ELSE 0)
        state_key == <<last6_new, will_work, work_used_new, net_new>>
        new_val == [key |-> state_key, b2b |-> b2b_new, back |-> <<entry.key, a>>]
        idx == KeyIndex(cur, state_key)
    IN  IF PrunedByBounds(net_new, days_left, ctx.min_net, ctx.max_net,
                          ctx.MAX_DAY_NET)
        THEN cur
        ELSE IF ~WindowOk(day, last7) THEN cur
        ELSE IF ~BalanceFeasible(ctx.base, day, net_new) THEN cur
        ELSE IF ~RentGuardOk(day, ctx.pre30, net_new, ctx.plan.rent_guard_cents)
        THEN cur
        ELSE IF idx = 0 THEN Append(cur, new_val)
        ELSE IF Dominates(work_used_new, b2b_new, cur[idx].b2b)
        THEN [cur EXCEPT ![idx].b2b = b2b_new]
        ELSE cur

\* dp.py lines 76-122: one (state, action) step of the inner loop; returns the
\* current layer, extended or updated.
Transition(ctx, day, entry, a, cur) ==
    LET last6_off == entry.key[1]
        prevW == entry.key[2]
        workUsed == entry.key[3]
        net == entry.key[4]
        will_work == IF a # "O" THEN 1 ELSE 0
        work_used_new == workUsed + will_work
        net_new == net + SHIFT_NET_CENTS[a]
        days_left == Horizon - day
        off_today == IF a = "O" THEN 1 ELSE 0
        last7 == Append(last6_off, off_today)
        last6_new == LastN(last7, HistoryLen)
        b2b_new == entry.b2b + (IF prevW = 1 /\ will_work = 1 THEN 1 ELSE 0)
        state_key == <<last6_new, will_work, work_used_new, net_new>>
        new_val == [key |-> state_key, b2b |-> b2b_new, back |-> <<entry.key, a>>]
        idx == KeyIndex(cur, state_key)
    IN  IF PrunedByBounds(net_new, days_left, ctx.min_net, ctx.max_net,
                          ctx.MAX_DAY_NET)
        THEN cur
        ELSE IF ~WindowOk(day, last7) THEN cur
        ELSE IF ~BalanceFeasible(ctx.base, day, net_new) THEN cur
        ELSE IF ~RentGuardOk(day, ctx.pre30, net_new, ctx.plan.rent_guard_cents)
        THEN cur
        ELSE IF idx = 0 THEN Append(cur, new_val)
        ELSE IF Dominates(work_used_new, b2b_new, cur[idx].b2b)
        THEN [cur EXCEPT ![idx] = new_val]
        ELSE cur

RECURSIVE ForPairs(_, _, _, _, _, _, _)
\* dp.py lines 71-75: the nested loops `for key, val in prev_layer.items()` /
\* `for a in _allowed_actions(...)`, as one pass over the pairs lo..hi of
\* (state, action) in the order of the code (pair n is state (n-1) div k + 1
\* with action (n-1) mod k + 1 for k allowed actions).  The range is split
\* in halves and each intermediate result is bound through a singleton set,
\* which makes the evaluation eager and shallow; the order is unchanged.
ForPairs(ctx, day, prev_layer, acts, lo, hi, cur) ==
    IF lo > hi THEN cur
    ELSE IF lo = hi
    THEN Transition(ctx, day, prev_layer[((lo - 1) \div Len(acts)) + 1],
                    acts[((lo - 1) % Len(acts)) + 1], cur)
    ELSE LET mid == (lo + hi) \div 2
         IN  CHOOSE res \in
               { ForPairs(ctx, day, prev_layer, acts, mid + 1, hi, left) :
                   left \in {ForPairs(ctx, day, prev_layer, acts, lo, mid, cur)} } :
               TRUE

\* dp.py lines 68-124: the layer of `day` from the previous layer
NextLayer(ctx, day, prev_layer) ==
    LET acts == _allowed_actions(day, LockedOn(ctx.plan, day), ctx.forbid)
    IN  ForPairs(ctx, day, prev_layer, acts, 1, Len(prev_layer) * Len(acts), <<>>)

RECURSIVE BuildLayers(_, _)
\* dp.py lines 63-124: layers[0..day] (layers[d + 1] here is the code's layers[d])
BuildLayers(ctx, day) ==
    IF day = 0
    THEN << << [key |-> << <<>>, 0, 0, 0 >>, b2b |-> 0, back |-> <<>>] >> >>
    ELSE CHOOSE res \in
           { Append(prev, NextLayer(ctx, day, prev[day])) :
               prev \in {BuildLayers(ctx, day - 1)} } :
           TRUE

\* Python's tuple comparison obj < best on 3-tuples
LexLess(x, y) ==
    \/ x[1] < y[1]
    \/ x[1] = y[1] /\ x[2] < y[2]
    \/ x[1] = y[1] /\ x[2] = y[2] /\ x[3] < y[3]

\* dp.py lines 130-134: the band test of the final selection
InBand(plan, final_closing) ==
    /\ plan.target_end_cents - plan.band_cents <= final_closing
    /\ final_closing <= plan.target_end_cents + plan.band_cents

\* dp.py lines 129-139: one iteration of the final selection; best is <<>>
\* (None) or <<obj, entry>>
SelectStep(ctx, e, best) ==
    LET final_closing == ctx.base[Horizon] + e.key[4]
        abs_delta == Abs(final_closing - ctx.plan.target_end_cents)
        obj == <<e.key[3], e.b2b, abs_delta>>
    IN  IF ~InBand(ctx.plan, final_closing) THEN best
        ELSE IF best = <<>> \/ LexLess(obj, best[1]) THEN <<obj, e>>
        ELSE best

RECURSIVE SelectBest(_, _, _, _, _)
\* dp.py lines 126-139: the loop over layers[-1].items(), entries lo..hi in
\* insertion order; split in halves to keep the evaluation shallow.
SelectBest(ctx, last_layer, lo, hi, best) ==
    IF lo > hi THEN best
    ELSE IF lo = hi THEN SelectStep(ctx, last_layer[lo], best)
    ELSE LET mid == (lo + hi) \div 2
         IN  CHOOSE res \in
               { SelectBest(ctx, last_layer, mid + 1, hi, left) :
                   left \in {SelectBest(ctx, last_layer, lo, mid, best)} } :
               TRUE

RECURSIVE Reconstruct(_, _, _, _)
\* dp.py lines 146-166: walk the back-pointers from layer `day` down to layer
\* 0; returns [ok, actions], ok = FALSE when a back-pointer is None or a
\* predecessor key is missing from its layer.
Reconstruct(layers, day, cur_val, acc) ==
    IF day = 0 THEN [ok |-> TRUE, actions |-> acc]
    ELSE IF cur_val.back = <<>> THEN [ok |-> FALSE, actions |-> acc]
    ELSE LET prev_key == cur_val.back[1]
             a == cur_val.back[2]
             idx == KeyIndex(layers[day], prev_key)
         IN  IF idx = 0 THEN [ok |-> FALSE, actions |-> <<a>> \o acc]
             ELSE Reconstruct(layers, day - 1, layers[day][idx], <<a>> \o acc)

\* dp.py line 142: the message of the RuntimeError solve raises when no state
\* of the last layer lies within the band.
InfeasibleMessage == "No feasible schedule found under constraints and band"

\* The constraints an exception message of solve names in its text: the one
\* message of line 142 speaks of "constraints and band"; it is the same for
\* every plan and the exception carries no other attribute.
ConstraintsNamed(message) ==
    IF message = InfeasibleMessage THEN {"band"} ELSE {}

NoSchedule ==
    [actions |-> <<>>, objective |-> <<>>, final_closing_cents |-> 0,
     ledger |-> <<>>]

\* dp.py lines 49-58: the prefix arrays and the global net bounds
SolveContext(plan, forbid_large_after_day1) ==
    LET pa == build_prefix_arrays(plan)
        base_end == pa.base[Horizon]
    IN  [plan |-> plan,
         forbid |-> forbid_large_after_day1,
         base |-> pa.base,
         min_net |-> (plan.target_end_cents - plan.band_cents) - base_end,
         max_net |-> (plan.target_end_cents + plan.band_cents) - base_end,
         MAX_DAY_NET |-> Max2(SHIFT_NET_CENTS["O"], SHIFT_NET_CENTS["Spark"]),
         pre30 |-> pre_rent_base_on_day30(plan, pa.dep, pa.bills)]

\* Mutant of SolveResult: the ledger is built from actions_rev, the actions
\* in the order of the backward walk.
SolveResultLedgerOfReversed(plan, layers, best) ==
    IF best = <<>>
    THEN [status |-> "infeasible", schedule |-> NoSchedule, layers |-> layers,
          message |-> InfeasibleMessage]
    ELSE LET rec == Reconstruct(layers, Horizon, best[2], <<>>)
         IN  IF ~rec.ok
             THEN [status |-> "error", schedule |-> NoSchedule, layers |-> layers,
                   message |-> "AssertionError"]
             ELSE LET actions_rev == [t \in 1..Horizon |->
                                         rec.actions[Horizon + 1 - t]]
                      ledger == build_ledger(plan, actions_rev)
                  IN  [status |-> "ok",
                       schedule |-> [actions |-> rec.actions,
                                     objective |-> best[1],
                                     final_closing_cents |->
                                         ledger[Horizon].closing_cents,
                                     ledger |-> ledger],
                       layers |-> layers,
                       message |-> ""]

\* dp.py lines 141-176: the error of line 142, or reconstruction, ledger and
\* the schedule.  best is the result of the final selection.
SolveResult(plan, layers, best) ==
    IF best = <<>>
    THEN [status |-> "infeasible", schedule |-> NoSchedule, layers |-> layers,
          message |-> InfeasibleMessage]
    ELSE LET rec == Reconstruct(layers, Horizon, best[2], <<>>)
         IN  IF ~rec.ok
             THEN [status |-> "error", schedule |-> NoSchedule, layers |-> layers,
                   message |-> "AssertionError"]
             ELSE LET ledger == build_ledger(plan, rec.actions)
                  IN  [status |-> "ok",
                       schedule |-> [actions |-> rec.actions,
                                     objective |-> best[1],
                                     final_closing_cents |->
                                         ledger[Horizon].closing_cents,
                                     ledger |-> ledger],
                       layers |-> layers,
                       message |-> ""]

\* dp.py lines 60-176: the layers, the final selection over layers[-1] and
\* the result, for the context of a plan.
SolveLayers(ctx) ==
    CHOOSE res \in
      { SolveResult(ctx.plan, layers,
                    SelectBest(ctx, layers[Horizon + 1], 1,
                               Len(layers[Horizon + 1]), <<>>)) :
          layers \in {BuildLayers(ctx, Horizon)} } :
      TRUE

\* dp.py: solve.  status is "ok", "infeasible" (the RuntimeError of line 142)
\* or "error" (an assertion or key error during reconstruction).  The
\* intermediate values are bound through singleton sets (computed once).
solve(plan, forbid_large_after_day1) ==
    CHOOSE res \in
      { SolveLayers(ctx) : ctx \in {SolveContext(plan, forbid_large_after_day1)} } :
      TRUE

RECURSIVE DpWindows(_, _, _)
\* dp.py lines 88-96 along one action vector: from day `day` on, with
\* last6_off the remembered flags of the days before, every day passes the
\* window check on the remembered flags plus today's; off[t] is 1 when day t
\* is off.
DpWindows(off, day, last6_off) ==
    IF day > Horizon THEN TRUE
    ELSE LET last7 == Append(last6_off, off[day])
         IN  /\ WindowOk(day, last7)
             /\ DpWindows(off, day + 1, LastN(last7, HistoryLen))

----------------------------------------------------------------------------
(* Validator *)

RECURSIVE has_off_off_scan(_, _)
\* validate.py: _has_off_off_last7, from index i (1-based) on: "T", "F", or
\* "IndexError" when the scan reads past the end of a window shorter than 7.
has_off_off_scan(off_flags_7, i) ==
    IF i > WindowLen - 1 THEN "F"
    ELSE IF i > Len(off_flags_7) THEN "IndexError"
    ELSE IF off_flags_7[i] # 1 THEN has_off_off_scan(off_flags_7, i + 1)
    ELSE IF i + 1 > Len(off_flags_7) THEN "IndexError"
    ELSE IF off_flags_7[i + 1] = 1 THEN "T"
    ELSE has_off_off_scan(off_flags_7, i + 1)

\* validate.py: _has_off_off_last7
_has_off_off_last7(off_flags_7) == has_off_off_scan(off_flags_7, 1)

\* Python's off[s : s + 7] for a 0-based s: clipped to the length of off.
Window7(off, s) ==
    LET hi == IF s + WindowLen <= Len(off) THEN s + WindowLen ELSE Len(off)
    IN  IF s + 1 > hi THEN <<>> ELSE SubSeq(off, s + 1, hi)

RECURSIVE WindowsScan(_, _)
\* validate.py lines 67-72: the loop over the windows s = 0..23 (Horizon - 7),
\* stopping at the first window without an off-off pair.
WindowsScan(off, s) ==
    IF s > Horizon - WindowLen THEN "T"
    ELSE LET r == _has_off_off_last7(Window7(off, s))
         IN  IF r = "T" THEN WindowsScan(off, s + 1) ELSE r

\* validate.py: validate.  raised = TRUE stands for the KeyError of line 54 or
\* the IndexError of _has_off_off_last7; otherwise checks lists (name, pass) in
\* the order of the code and ok is their conjunction.
validate(plan, schedule) ==
    LET pa == build_prefix_arrays(plan)
        acts == schedule.actions
        valid_actions == \A i \in 1..Len(acts) : acts[i] \in DOMAIN SHIFT_NET_CENTS
        nonneg_ok == \A t \in 1..Len(schedule.ledger) :
                         schedule.ledger[t].closing_cents >= 0
        final == schedule.final_closing_cents
        lo == plan.target_end_cents - plan.band_cents
        hi == plan.target_end_cents + plan.band_cents
        band_ok == lo <= final /\ final <= hi
        pre30 == pre_rent_base_on_day30(plan, pa.dep, pa.bills)
        net_total == NetThrough(acts, Len(acts))
        pre_rent_balance == pre30 + net_total
        rent_ok == pre_rent_balance >= plan.rent_guard_cents
        off == [i \in 1..Len(acts) |-> IF acts[i] = "O" THEN 1 ELSE 0]
        scan == WindowsScan(off, 0)
        off_ok == scan = "T"
        checks == << [name |-> "Actions valid", pass |-> valid_actions],
                     [name |-> "Non-negative balances", pass |-> nonneg_ok],
                     [name |-> "Final within band", pass |-> band_ok],
                     [name |-> "Day-30 pre-rent guard", pass |-> rent_ok],
                     [name |-> "7-day Off,Off present", pass |-> off_ok] >>
    IN  IF ~valid_actions \/ scan = "IndexError"
        THEN [raised |-> TRUE, ok |-> FALSE, checks |-> <<>>]
        ELSE [raised |-> FALSE,
              ok |-> \A i \in 1..Len(checks) : checks[i].pass,
              checks |-> checks]

NoReport == [raised |-> FALSE, ok |-> FALSE, checks |-> <<>>]

----------------------------------------------------------------------------
(* CP model: one-hot, locks and the day-1 rule *)

\* cpsat.py: ACTIONS (a reserved word here)
CP_ACTIONS == <<"O", "S", "M", "L", "SS">>

\* cpsat.py lines 149-163: the values x[0] may take under the one-hot
\* constraint, the lock constraints of day 1 and `x[0][IDX["L"]] == 1`, as the
\* set of action symbols day 1 can be assigned.  raised stands for the
\* KeyError of IDX[locked] on a lock that is not one of the five.
CpDay1Domain(plan) ==
    LET locked == plan.actions[1]
        known == \E a \in 1..Len(CP_ACTIONS) : CP_ACTIONS[a] = locked
    IN  IF locked # None /\ ~known
        THEN [raised |-> TRUE, domain |-> {}]
        ELSE [raised |-> FALSE,
              domain |-> {CP_ACTIONS[a] : a \in
                            {b \in 1..Len(CP_ACTIONS) :
                                /\ locked # None => CP_ACTIONS[b] = locked
                                /\ CP_ACTIONS[b] = "L"}}]

\* cpsat.py line 188: net_vec = [SHIFT_NET_CENTS[a] for a in ACTIONS]; raised
\* stands for the KeyError of an action symbol SHIFT_NET_CENTS does not hold.
CpNetVec ==
    IF \A a \in 1..Len(CP_ACTIONS) : CP_ACTIONS[a] \in DOMAIN SHIFT_NET_CENTS
    THEN [raised |-> FALSE,
          net_vec |-> [a \in 1..Len(CP_ACTIONS) |-> SHIFT_NET_CENTS[CP_ACTIONS[a]]]]
    ELSE [raised |-> TRUE, net_vec |-> <<>>]

\* cpsat.py lines 153-158: IDX[locked] raises KeyError for a lock that is not
\* one of ACTIONS.
CpLockRaises(plan) ==
    \E t \in 1..Len(plan.actions) :
        /\ plan.actions[t] # None
        /\ \A a \in 1..Len(CP_ACTIONS) : CP_ACTIONS[a] # plan.actions[t]

\* prefix_net[t] of an assignment x (x[t] the index of the action of day t)
CpPrefixNet(x, net_vec, t) ==
    LET RECURSIVE acc(_)
        acc(k) == IF k = 0 THEN 0 ELSE acc(k - 1) + net_vec[x[k]]
    IN  acc(t)

\* cpsat.py lines 216-220: each window s..s+6 holds one of its six adjacent
\* pairs oo[i] = off[i] /\ off[i+1]; off[t] is TRUE when day t is off.
CpWindows(off) ==
    \A s \in 1..(Horizon - HistoryLen) :
        \E i \in s..(s + HistoryLen - 1) : off[i] /\ off[i + 1]

\* cpsat.py lines 149-220: the constraints of _build_model on an assignment
\* of one action index to each day.
CpConstraints(plan, x, net_vec) ==
    LET pa == build_prefix_arrays(plan)
        pre30 == pre_rent_base_on_day30(plan, pa.dep, pa.bills)
        off == [t \in 1..Horizon |-> CP_ACTIONS[x[t]] = "O"]
        final_close == pa.base[Horizon] + CpPrefixNet(x, net_vec, Horizon)
    IN  /\ \A t \in 1..Horizon :
              plan.actions[t] # None => CP_ACTIONS[x[t]] = plan.actions[t]
        /\ CP_ACTIONS[x[1]] = "L"
        /\ \A t \in 1..Horizon : pa.base[t] + CpPrefixNet(x, net_vec, t) >= 0
        /\ pre30 + CpPrefixNet(x, net_vec, Horizon) >= plan.rent_guard_cents
        /\ final_close >= plan.target_end_cents - plan.band_cents
        /\ final_close <= plan.target_end_cents + plan.band_cents
        /\ CpWindows(off)

\* cpsat.py lines 227-230 and 214: the five objective parts of an assignment
CpObjective(plan, x, net_vec) ==
    LET pa == build_prefix_arrays(plan)
        final_close == pa.base[Horizon] + CpPrefixNet(x, net_vec, Horizon)
        Count(S) == Cardinality(S)
    IN  << Count({t \in 1..Horizon : CP_ACTIONS[x[t]] # "O"}),
           Count({t \in 1..(Horizon - 1) :
                     CP_ACTIONS[x[t]] # "O" /\ CP_ACTIONS[x[t + 1]] # "O"}),
           Abs(final_close - plan.target_end_cents),
           Count({t \in 1..Horizon : CP_ACTIONS[x[t]] = "L"}),
           Count({t \in 1..Horizon : CP_ACTIONS[x[t]] = "M"})
             + 2 * Count({t \in 1..Horizon : CP_ACTIONS[x[t]] = "L"}) >>

\* Lexicographic order on the five-part objective
CpLexLess(p, q) ==
    \E k \in 1..5 : p[k] < q[k] /\ \A j \in 1..(k - 1) : p[j] = q[j]

NoCp ==
    [installed |-> FALSE, status |-> "none", objective |-> <<>>,
     solutions |-> {<<>>}]

\* cpsat.py: solve_lex.  status is "RuntimeError" (OR-Tools missing, line
\* 400), "KeyError" (lines 158 and 188), "infeasible" (the RuntimeError of
\* stage 1, line 356) or "ok"; solutions is the set of action vectors that
\* attain the sequential optimum, any of which the solver may return.  The
\* per-stage time cap is not modelled.
solve_lex(plan, installed) ==
    IF ~installed
    THEN [NoCp EXCEPT !.status = "RuntimeError"]
    ELSE IF CpLockRaises(plan) \/ CpNetVec.raised
    THEN [NoCp EXCEPT !.installed = TRUE, !.status = "KeyError"]
    ELSE LET net_vec == CpNetVec.net_vec
             F == {x \in [1..Horizon -> 1..Len(CP_ACTIONS)] :
                      CpConstraints(plan, x, net_vec)}
         IN  IF F = {}
             THEN [NoCp EXCEPT !.installed = TRUE, !.status = "infeasible"]
             ELSE LET best == CHOOSE x \in F :
                                 \A y \in F :
                                    ~CpLexLess(CpObjective(plan, y, net_vec),
                                               CpObjective(plan, x, net_vec))
                      obj == CpObjective(plan, best, net_vec)
                  IN  [installed |-> TRUE, status |-> "ok", objective |-> obj,
                       solutions |->
                          {[t \in 1..Horizon |-> CP_ACTIONS[x[t]]] :
                              x \in {y \in F :
                                       CpObjective(plan, y, net_vec) = obj}}]

\* Mutant of verify_lex_optimal: the exception of solve_lex is not caught
VerifyLexOptimalUncaught(plan, schedule_dp, installed) ==
    LET sol == solve_lex(plan, installed)
        ok == sol.objective = schedule_dp.objective
    IN  IF sol.status # "ok"
        THEN [raised |-> TRUE, ok |-> FALSE, dp_obj |-> schedule_dp.objective,
              cp_obj |-> <<>>, dp_actions |-> schedule_dp.actions,
              cp_actions |-> <<>>, detail |-> sol.status]
        ELSE [raised |-> FALSE, ok |-> ok, dp_obj |-> schedule_dp.objective,
              cp_obj |-> sol.objective, dp_actions |-> schedule_dp.actions,
              cp_actions |-> CHOOSE a \in sol.solutions : TRUE,
              detail |-> IF ok THEN "OK"
                         ELSE "Mismatch between DP and CP-SAT objectives"]

\* cpsat.py: verify_lex_optimal(plan, schedule_dp).  Any exception of
\* solve_lex is caught and turned into a report with ok False; otherwise ok
\* is the equality of the two objective tuples.
verify_lex_optimal(plan, schedule_dp, installed) ==
    LET sol == solve_lex(plan, installed)
        ok == sol.objective = schedule_dp.objective
    IN  IF sol.status # "ok"
        THEN [raised |-> FALSE, ok |-> FALSE,
              dp_obj |-> schedule_dp.objective,
              cp_obj |-> <<-1, -1, -1, -1, -1>>,
              dp_actions |-> schedule_dp.actions, cp_actions |-> <<>>,
              detail |-> "CP-SAT error"]
        ELSE [raised |-> FALSE, ok |-> ok, dp_obj |-> schedule_dp.objective,
              cp_obj |-> sol.objective, dp_actions |-> schedule_dp.actions,
              cp_actions |-> CHOOSE a \in sol.solutions : TRUE,
              detail |-> IF ok THEN "OK"
                         ELSE "Mismatch between DP and CP-SAT objectives"]

\* The dispatcher has not run.
NoDiagnostics ==
    [mode |-> "", installed |-> FALSE, solver |-> "", fallback_reason |-> None]

\* Mutant of solve_with_diagnostics: the fallback is taken whatever
\* dp_fallback says
SolveWithDiagnosticsAlwaysFallsBack(plan, dp_fallback, installed) ==
    LET c == solve_lex(plan, installed)
        d == solve(plan, FALSE)
    IN  IF c.status = "ok"
        THEN [status |-> "ok", solver |-> "cpsat", fallback_reason |-> None,
              message |-> "",
              schedule |->
                 LET actions == CHOOSE a \in c.solutions : TRUE
                     ledger == build_ledger(plan, actions)
                 IN  [actions |-> actions, objective |-> c.objective,
                      final_closing_cents |-> ledger[Horizon].closing_cents,
                      ledger |-> ledger]]
        ELSE IF c.status = "infeasible"
        THEN [status |-> "infeasible", solver |-> "cpsat",
              fallback_reason |-> None, message |-> InfeasibleMessage,
              schedule |-> NoSchedule]
        ELSE [status |-> d.status, solver |-> "dp",
              fallback_reason |-> c.status, message |-> d.message,
              schedule |-> d.schedule]

\* The CP entry point with diagnostics that the dispatcher and the API call
\* (cpsat_solver.solve / solve_with_diagnostics): the CP solve first; when
\* it fails for another reason than infeasibility (backend not installed,
\* error while building or solving the model) and dp_fallback is set, the DP
\* solve with solver "dp" and the failure as fallback_reason; without
\* dp_fallback the failure is the caller's error.
solve_with_diagnostics(plan, dp_fallback, installed) ==
    LET c == solve_lex(plan, installed)
        d == solve(plan, FALSE)
    IN  IF c.status = "ok"
        THEN [status |-> "ok", solver |-> "cpsat", fallback_reason |-> None,
              message |-> "",
              schedule |->
                 LET actions == CHOOSE a \in c.solutions : TRUE
                     ledger == build_ledger(plan, actions)
                 IN  [actions |-> actions, objective |-> c.objective,
                      final_closing_cents |-> ledger[Horizon].closing_cents,
                      ledger |-> ledger]]
        ELSE IF c.status = "infeasible"
        THEN [status |-> "infeasible", solver |-> "cpsat",
              fallback_reason |-> None, message |-> InfeasibleMessage,
              schedule |-> NoSchedule]
        ELSE IF dp_fallback
        THEN [status |-> d.status, solver |-> "dp",
              fallback_reason |-> c.status, message |-> d.message,
              schedule |-> d.schedule]
        ELSE [status |-> c.status, solver |-> "cpsat",
              fallback_reason |-> None, message |-> c.status,
              schedule |-> NoSchedule]

\* cashflow-scheduler/core/__init__.py: solve(plan, solver).
core_solve(plan, solver, installed) ==
    IF solver = "auto"
    THEN solve_with_diagnostics(plan, TRUE, installed)
    ELSE IF solver = "dp"
    THEN LET d == solve(plan, FALSE)
         IN  [status |-> d.status, solver |-> "dp", fallback_reason |-> None,
              message |-> d.message, schedule |-> d.schedule]
    ELSE IF solver = "cpsat"
    THEN solve_with_diagnostics(plan, FALSE, installed)
    ELSE [status |-> "ValueError", solver |-> "", fallback_reason |-> None,
          message |-> "Unknown solver", schedule |-> NoSchedule]

\* Text is modelled as a sequence of one-character strings.
DigitChar(d) == <<"0", "1", "2", "3", "4", "5", "6", "7", "8", "9">>[d + 1]

RECURSIVE NatToStr(_)
\* Python's str(n) / f"{n}" for n >= 0
NatToStr(n) ==
    IF n < 10 THEN <<DigitChar(n)>>
    ELSE NatToStr(n \div 10) \o <<DigitChar(n % 10)>>

\* Python's f"{i}" for an integer
IntToStr(i) == IF i < 0 THEN <<"-">> \o NatToStr(0 - i) ELSE NatToStr(i)

\* Python's f"{n:02d}" for n >= 0
TwoDigits(n) == IF n < 10 THEN <<"0">> \o NatToStr(n) ELSE NatToStr(n)

\* model.py: cents_to_str
cents_to_str(cents) ==
    LET sign == IF cents < 0 THEN <<"-">> ELSE <<>>
        cents_abs == Abs(cents)
    IN  sign \o NatToStr(cents_abs \div 100) \o <<".">>
             \o TwoDigits(cents_abs % 100)

\* api/index.py: _cents_to_str; // and % are Python's floor division and
\* modulo, which \div and % are as well.
_cents_to_str(amount) ==
    IntToStr(amount \div 100) \o <<".">> \o TwoDigits(amount % 100)

\* api/index.py: the monetary part of _schedule_payload(schedule, ...)
_schedule_payload(schedule) ==
    [ actions |-> schedule.actions,
      objective |-> schedule.objective,
      final_closing |->
          _cents_to_str(schedule.ledger[Len(schedule.ledger)].closing_cents),
      ledger |-> [t \in 1..Len(schedule.ledger) |->
          [ day |-> schedule.ledger[t].day,
            opening |-> _cents_to_str(schedule.ledger[t].opening_cents),
            deposits |-> _cents_to_str(schedule.ledger[t].deposit_cents),
            action |-> schedule.ledger[t].action,
            net |-> _cents_to_str(schedule.ledger[t].net_cents),
            bills |-> _cents_to_str(schedule.ledger[t].bills_cents),
            closing |-> _cents_to_str(schedule.ledger[t].closing_cents) ]] ]

\* io/render.py: the object render_json(schedule) serialises
render_json(schedule) ==
    [ actions |-> schedule.actions,
      objective |-> schedule.objective,
      final_closing |-> cents_to_str(schedule.final_closing_cents),
      ledger |-> [t \in 1..Len(schedule.ledger) |->
          [ day |-> schedule.ledger[t].day,
            opening |-> cents_to_str(schedule.ledger[t].opening_cents),
            deposits |-> cents_to_str(schedule.ledger[t].deposit_cents),
            action |-> schedule.ledger[t].action,
            net |-> cents_to_str(schedule.ledger[t].net_cents),
            bills |-> cents_to_str(schedule.ledger[t].bills_cents),
            closing |-> cents_to_str(schedule.ledger[t].closing_cents) ]] ]

RECURSIVE StrToNat(_)
\* The number a string of digits denotes
StrToNat(digits) ==
    IF digits = <<>> THEN 0
    ELSE StrToNat(SubSeq(digits, 1, Len(digits) - 1)) * 10
           + (CHOOSE d \in 0..9 : DigitChar(d) = digits[Len(digits)])

\* The cents a decimal string [-]d+.dd denotes
ParseMoney(text) ==
    LET neg == text[1] = "-"
        body == IF neg THEN Tail(text) ELSE text
        n == Len(body)
        value == StrToNat(SubSeq(body, 1, n - 3)) * 100
                   + StrToNat(SubSeq(body, n - 1, n))
    IN  IF neg THEN 0 - value ELSE value

----------------------------------------------------------------------------
(* Inputs *)

NoLocks == [t \in 1..Horizon |-> None]

\* plan.actions profiles: no lock, day 1 locked off, the six-day prefix of
\* scenario S3, a working day locked late in the month.
LockProfiles ==
    { NoLocks,
      [NoLocks EXCEPT ![1] = "O"],
      [t \in 1..Horizon |-> IF t = 1 THEN "Spark" ELSE IF t <= 6 THEN "O" ELSE None],
      [NoLocks EXCEPT ![Horizon - 1] = "Spark"] }

BillProfiles ==
    { <<>>,
      << [day |-> 3, amount_cents |-> 18000] >>,
      << [day |-> 3, amount_cents |-> 18000],
         [day |-> Horizon, amount_cents |-> 25000] >> }

\* Plans without deposits and manual adjustments.
BasePlans ==
    [ start_balance_cents : {0, 5000},
      target_end_cents : {12000, 30000},
      band_cents : {2500, 12000},
      rent_guard_cents : {0, 30000},
      deposits : { <<>> },
      bills : BillProfiles,
      actions : LockProfiles,
      manual_adjustments : { <<>> } ]

\* Plans with a mid-month deposit, with and without a negative adjustment.
DepositPlans ==
    [ start_balance_cents : {5000},
      target_end_cents : {30000},
      band_cents : {2500, 12000},
      rent_guard_cents : {0},
      deposits : { << [day |-> 5, amount_cents |-> 7000] >> },
      bills : BillProfiles,
      actions : LockProfiles,
      manual_adjustments : { <<>>, << [day |-> 2, amount_cents |-> -3000] >> } ]

\* Scenario S2 of the specification: infeasible by the bills of day 1.
PlanS2 ==
    [ start_balance_cents |-> 10000,
      target_end_cents |-> 50000,
      band_cents |-> 2500,
      rent_guard_cents |-> 500000,
      deposits |-> <<>>,
      bills |-> << [day |-> 1, amount_cents |-> 1000000] >>,
      actions |-> NoLocks,
      manual_adjustments |-> <<>> ]

PlanSet == BasePlans \cup DepositPlans \cup {PlanS2}

\* End-of-day amounts offered to the resume entry points, in thousandths of
\* a dollar.
EodInputs == {125000, 230005, -50000, 124500}

\* No mapping has been handed to plan_from_dict.
NoRaw == <<>>

\* store.py: the to_cents conversions of a list of entries, in order.
EntryCents(entries) ==
    [i \in 1..Len(entries) |->
        ToCentsDecimal(entries[i].amount.neg, entries[i].amount.hundredths,
                       entries[i].amount.third)]

\* store.py: plan_from_dict(data).  Amounts are decimal numbers given as
\* [neg, hundredths, third]; the first failing to_cents raises ValueError,
\* and so does an actions list whose length is not the horizon.
plan_from_dict(data) ==
    LET start_balance == ToCentsDecimal(data.start_balance.neg,
                             data.start_balance.hundredths,
                             data.start_balance.third)
        target_end == ToCentsDecimal(data.target_end.neg,
                          data.target_end.hundredths, data.target_end.third)
        band == ToCentsDecimal(data.band.neg, data.band.hundredths,
                               data.band.third)
        rent_guard == ToCentsDecimal(data.rent_guard.neg,
                          data.rent_guard.hundredths, data.rent_guard.third)
        deposits == EntryCents(data.deposits)
        bills == EntryCents(data.bills)
        manual_adjustments == EntryCents(data.manual_adjustments)
        AllOk(cs) == \A i \in 1..Len(cs) : cs[i].ok
        actions == [t \in 1..Len(data.actions) |->
                       IF data.actions[t] \in {None, "", "null"}
                       THEN None ELSE data.actions[t]]
    IN  IF ~(start_balance.ok /\ target_end.ok /\ band.ok /\ rent_guard.ok
             /\ AllOk(deposits) /\ AllOk(bills))
        THEN [status |-> "ValueError", message |-> "exceeds maximum",
              plan |-> <<>>]
        ELSE IF Len(data.actions) # Horizon
        THEN [status |-> "ValueError",
              message |-> "actions must be length 30", plan |-> <<>>]
        ELSE IF ~AllOk(manual_adjustments)
        THEN [status |-> "ValueError", message |-> "exceeds maximum",
              plan |-> <<>>]
        ELSE [status |-> "ok", message |-> "",
              plan |->
                [ start_balance_cents |-> start_balance.cents,
                  target_end_cents |-> target_end.cents,
                  band_cents |-> band.cents,
                  rent_guard_cents |-> rent_guard.cents,
                  deposits |-> [i \in 1..Len(deposits) |->
                      [day |-> data.deposits[i].day,
                       amount_cents |-> deposits[i].cents]],
                  bills |-> [i \in 1..Len(bills) |->
                      [day |-> data.bills[i].day,
                       amount_cents |-> bills[i].cents]],
                  actions |-> actions,
                  manual_adjustments |->
                      [i \in 1..Len(manual_adjustments) |->
                          [day |-> data.manual_adjustments[i].day,
                           amount_cents |-> manual_adjustments[i].cents]] ]]

\* No API response has been produced.
NoResponse == <<>>

\* verify_lex_optimal has not run.
NoVerification == <<>>

----------------------------------------------------------------------------
(* State machine *)

VARIABLES
    plan,           \* the plan handed to the entry point
    forbid,         \* forbid_large_after_day1
    op,             \* "init", "solve", "adjust", "set_eod", "solve_from"
    outcome,        \* "none", "ok", "infeasible", "error", "ValueError",
                    \* "http400", "http500"
    schedule,       \* the schedule returned, NoSchedule if none
    layers,         \* the DP layers of the last solve
    solved_plan,    \* the plan the returned schedule was solved for
    baseline,       \* the baseline schedule of a resume
    current_day,    \* resume: day d
    target_eod,     \* resume: desired closing x in cents
    report,         \* validate(solved_plan, schedule), NoReport before
    error,          \* message of the exception or error response, "" if none
    cp,             \* outcome of cpsat.solve_lex(plan), NoCp before
    raw,            \* the mapping handed to plan_from_dict, NoRaw if none
    response,       \* the payload of the last API response, NoResponse before
    verification,   \* verify_lex_optimal's report, NoVerification before
    diagnostics     \* the dispatcher's diagnostics, NoDiagnostics before

vars == <<plan, forbid, op, outcome, schedule, layers, solved_plan, baseline,
          current_day, target_eod, report, error, cp, raw, response,
          verification, diagnostics>>

Init ==
    /\ plan \in PlanSet
    /\ forbid \in BOOLEAN
    /\ forbid => plan \in DepositPlans
    /\ op = "init"
    /\ outcome = "none"
    /\ schedule = NoSchedule
    /\ layers = <<>>
    /\ solved_plan = plan
    /\ baseline = NoSchedule
    /\ current_day = 0
    /\ target_eod = 0
    /\ report = NoReport
    /\ error = ""
    /\ cp = NoCp
    /\ raw = NoRaw
    /\ response = NoResponse
    /\ verification = NoVerification
    /\ diagnostics = NoDiagnostics

\* dp.solve(plan, forbid_large_after_day1=forbid)
DpSolve ==
    /\ op = "init"
    /\ \E r \in {solve(plan, forbid)} :
           /\ outcome' = r.status
           /\ schedule' = r.schedule
           /\ layers' = r.layers
           /\ error' = r.message
    /\ op' = "solve"
    /\ solved_plan' = plan
    /\ UNCHANGED <<plan, forbid, baseline, current_day, target_eod, report,
                   cp, raw, response, verification, diagnostics>>

\* validate(solved_plan, schedule) on a returned schedule
Validate ==
    /\ op # "init"
    /\ outcome = "ok"
    /\ report = NoReport
    /\ report' = validate(solved_plan, schedule)
    /\ UNCHANGED <<plan, forbid, op, outcome, schedule, layers, solved_plan,
                   baseline, current_day, target_eod, error, cp, raw,
                   response, verification, diagnostics>>

\* Mutant of AdjustedPlan: the prefix is locked one day short
\* (baseline.actions[:current_day - 1]).
AdjustedPlanShortLock(original_plan, baseline_schedule, d, eod_cents) ==
    LET baseline_eod == baseline_schedule.ledger[d].closing_cents
        adjustment_needed == eod_cents - baseline_eod
    IN  [original_plan EXCEPT
           !.actions = SubSeq(baseline_schedule.actions, 1, d - 1)
                       \o [t \in 1..(Horizon - d + 1) |-> None],
           !.manual_adjustments =
               Append(@, [day |-> d, amount_cents |-> adjustment_needed])]

\* Mutant of AdjustedPlan: the baseline closing is read one row early
\* (ledger[current_day - 2] in place of ledger[current_day - 1]).
AdjustedPlanRowEarly(original_plan, baseline_schedule, d, eod_cents) ==
    LET baseline_eod ==
            baseline_schedule.ledger[IF d > 1 THEN d - 1 ELSE Horizon].closing_cents
        adjustment_needed == eod_cents - baseline_eod
    IN  [original_plan EXCEPT
           !.actions = SubSeq(baseline_schedule.actions, 1, d)
                       \o [t \in 1..(Horizon - d) |-> None],
           !.manual_adjustments =
               Append(@, [day |-> d, amount_cents |-> adjustment_needed])]

\* core/__init__.py lines 109-129: the adjusted plan of adjust_from_day: days
\* 1..current_day locked to the baseline, the other slots unlocked, and one
\* manual adjustment on current_day that moves the baseline closing to
\* target_eod.
AdjustedPlan(original_plan, baseline_schedule, d, eod_cents) ==
    LET baseline_eod == baseline_schedule.ledger[d].closing_cents
        adjustment_needed == eod_cents - baseline_eod
    IN  [original_plan EXCEPT
           !.actions = SubSeq(baseline_schedule.actions, 1, d)
                       \o [t \in 1..(Horizon - d) |-> None],
           !.manual_adjustments =
               Append(@, [day |-> d, amount_cents |-> adjustment_needed])]

\* core/__init__.py: adjust_from_day(original_plan, current_day,
\* current_eod_balance, solver="dp", forbid_large_after_day1=forbid)
AdjustFromDay(d, eod) ==
    /\ op = "init"
    /\ op' = "adjust"
    /\ current_day' = d
    /\ IF ~(1 <= d /\ d <= Horizon)
       THEN /\ outcome' = "ValueError"
            /\ error' = "current_day must be 1-30"
            /\ UNCHANGED <<schedule, layers, solved_plan, baseline, target_eod>>
       ELSE \E b \in {solve(plan, forbid)}, c \in {to_cents(eod)} :
                IF b.status # "ok"
                THEN /\ outcome' = b.status
                     /\ error' = b.message
                     /\ layers' = b.layers
                     /\ UNCHANGED <<schedule, solved_plan, baseline, target_eod>>
                ELSE IF ~c.ok
                THEN /\ outcome' = "ValueError"
                     /\ error' = "Amount exceeds maximum allowed value"
                     /\ baseline' = b.schedule
                     /\ layers' = b.layers
                     /\ UNCHANGED <<schedule, solved_plan, target_eod>>
                ELSE \E adjusted_plan \in
                            {AdjustedPlan(plan, b.schedule, d, c.cents)} :
                       \E r \in {solve(adjusted_plan, forbid)} :
                         /\ baseline' = b.schedule
                         /\ target_eod' = c.cents
                         /\ solved_plan' = adjusted_plan
                         /\ outcome' = r.status
                         /\ error' = r.message
                         /\ schedule' = r.schedule
                         /\ layers' = r.layers
    /\ UNCHANGED <<plan, forbid, report,
                   cp, raw, response, verification, diagnostics>>

\* dp.py lines 179-194: solve_from(plan, start_day,
\* forbid_large_after_day1=forbid): the baseline solve, the prefix
\* 1..start_day-1 locked to it with every other slot unlocked, and the
\* second solve.  current_day records start_day.
SolveFrom(start_day) ==
    /\ op = "init"
    /\ op' = "solve_from"
    /\ current_day' = start_day
    /\ IF ~(1 <= start_day /\ start_day <= Horizon)
       THEN /\ outcome' = "ValueError"
            /\ error' = "start_day must be in 1..30"
            /\ UNCHANGED <<schedule, layers, solved_plan, baseline>>
       ELSE \E b \in {solve(plan, forbid)} :
                IF start_day = 1 \/ b.status # "ok"
                THEN /\ outcome' = b.status
                     /\ error' = b.message
                     /\ schedule' = b.schedule
                     /\ layers' = b.layers
                     /\ UNCHANGED <<solved_plan, baseline>>
                ELSE \E plan2 \in
                        {[plan EXCEPT
                            !.actions =
                                SubSeq(b.schedule.actions, 1, start_day - 1)
                                \o [t \in 1..(Horizon - start_day + 1) |-> None]]} :
                       \E r \in {solve(plan2, forbid)} :
                         /\ baseline' = b.schedule
                         /\ solved_plan' = plan2
                         /\ outcome' = r.status
                         /\ error' = r.message
                         /\ schedule' = r.schedule
                         /\ layers' = r.layers
    /\ UNCHANGED <<plan, forbid, target_eod, report,
                   cp, raw, response, verification, diagnostics>>

\* api/index.py: int(round(eod_amount * 100)) on an amount given in
\* thousandths of a dollar: round to the nearest cent, ties to the even
\* cent.  (The inexactness of the float product is not modelled.)
RoundCents(mills) ==
    LET mag == Abs(mills)
        q == mag \div 10
        r == mag % 10
        up == IF r > 5 \/ (r = 5 /\ q % 2 = 1) THEN q + 1 ELSE q
    IN  IF mills < 0 THEN -up ELSE up

\* api/index.py lines 178-179: -max_dollars <= eod_amount <= max_dollars with
\* max_dollars = MAX_AMOUNT_CENTS / 100, on an amount in thousandths of a
\* dollar (|mills| <= 10 * MAX_AMOUNT_CENTS, written without the product).
EodInRange(mills) ==
    (Abs(mills) + 9) \div 10 <= MAX_AMOUNT_CENTS

\* api/index.py: set_eod with solver = "dp" on a request {day, eod_amount,
\* plan}; the response carries the schedule and validate(plan, schedule).
SetEod(d, eod) ==
    /\ op = "init"
    /\ ~forbid
    /\ op' = "set_eod"
    /\ current_day' = d
    /\ IF \/ ~(1 <= d /\ d <= Horizon)
          \/ ~EodInRange(eod)
       THEN /\ outcome' = "http400"
            /\ error' = IF ~(1 <= d /\ d <= Horizon)
                        THEN "day must be in 1..30"
                        ELSE "eod_amount out of reasonable range"
            /\ UNCHANGED <<schedule, layers, solved_plan, baseline, target_eod,
                           report, response>>
       ELSE \E b \in {solve(plan, FALSE)} :
                IF b.status # "ok"
                THEN /\ outcome' = "http500"
                     /\ error' = "Failed to solve schedule"
                     /\ layers' = b.layers
                     /\ UNCHANGED <<schedule, solved_plan, baseline, target_eod,
                                    report, response>>
                ELSE \E adjusted_plan \in
                          {AdjustedPlan(plan,
                                        [b.schedule EXCEPT
                                           !.ledger = build_ledger(plan, b.schedule.actions)],
                                        d, RoundCents(eod))} :
                       \E r \in {solve(adjusted_plan, FALSE)} :
                         /\ baseline' = b.schedule
                         /\ target_eod' = RoundCents(eod)
                         /\ solved_plan' = adjusted_plan
                         /\ layers' = r.layers
                         /\ IF r.status = "ok"
                            THEN /\ outcome' = "ok"
                                 /\ error' = ""
                                 /\ schedule' = r.schedule
                                 /\ report' = validate(adjusted_plan, r.schedule)
                                 /\ response' = _schedule_payload(r.schedule)
                            ELSE /\ outcome' = "http500"
                                 /\ error' = "Failed to solve schedule"
                                 /\ UNCHANGED <<schedule, report, response>>
    /\ UNCHANGED <<plan, forbid, cp, raw, verification, diagnostics>>

\* cpsat.py: solve_lex(plan), with OR-Tools installed or not; the solver
\* returns one of the optimal action vectors.
SolveLex(installed) ==
    /\ op = "init"
    /\ ~forbid
    /\ op' = "solve_lex"
    /\ \E r \in {solve_lex(plan, installed)} :
          \E actions \in r.solutions :
              /\ cp' = [installed |-> r.installed, status |-> r.status,
                        objective |-> r.objective, solutions |-> {actions}]
              /\ outcome' = r.status
              /\ error' = CASE r.status = "RuntimeError" ->
                                 "OR-Tools CP-SAT not installed"
                            [] r.status = "infeasible" ->
                                 "CP-SAT failed to find a solution for objective 1"
                            [] r.status = "KeyError" -> "KeyError"
                            [] OTHER -> ""
    /\ UNCHANGED <<plan, forbid, schedule, layers, solved_plan, baseline,
                   current_day, target_eod, report, raw, response,
                   verification, diagnostics>>

\* cli.py: cmd_verify: the DP solve of the plan, then verify_lex_optimal on
\* its schedule, with OR-Tools installed or not.
VerifyLexOptimal(installed) ==
    /\ op = "init"
    /\ ~forbid
    /\ op' = "verify"
    /\ \E r \in {solve(plan, FALSE)} :
          /\ outcome' = r.status
          /\ schedule' = r.schedule
          /\ layers' = r.layers
          /\ error' = r.message
          /\ IF r.status = "ok"
             THEN /\ verification' =
                        verify_lex_optimal(plan, r.schedule, installed)
                  /\ cp' = [solve_lex(plan, installed) EXCEPT
                               !.installed = installed]
             ELSE /\ verification' = verification
                  /\ cp' = [cp EXCEPT !.installed = installed]
    /\ solved_plan' = plan
    /\ UNCHANGED <<plan, forbid, baseline, current_day, target_eod, report,
                   raw, response, diagnostics>>

\* Solver names offered to the dispatcher
SolverModes == {"auto", "dp", "cpsat", "other"}

\* cashflow-scheduler/core/__init__.py: solve(plan, solver=mode), with
\* OR-Tools installed or not.
Dispatch(mode, installed) ==
    /\ op = "init"
    /\ ~forbid
    /\ op' = "dispatch"
    /\ \E r \in {core_solve(plan, mode, installed)} :
          /\ outcome' = r.status
          /\ schedule' = r.schedule
          /\ error' = r.message
          /\ diagnostics' = [mode |-> mode, installed |-> installed,
                             solver |-> r.solver,
                             fallback_reason |-> r.fallback_reason]
    /\ solved_plan' = plan
    /\ UNCHANGED <<plan, forbid, layers, baseline, current_day, target_eod,
                   report, cp, raw, response, verification>>

\* api/index.py: /solve with solver = "dp" on a request carrying the plan;
\* the response carries the schedule and validate(plan, schedule).
ApiSolve ==
    /\ op = "init"
    /\ ~forbid
    /\ op' = "api_solve"
    /\ \E r \in {solve(plan, FALSE)} :
          /\ layers' = r.layers
          /\ IF r.status = "ok"
             THEN /\ outcome' = "ok"
                  /\ error' = ""
                  /\ schedule' = r.schedule
                  /\ report' = validate(plan, r.schedule)
                  /\ response' = _schedule_payload(r.schedule)
             ELSE /\ outcome' = "http500"
                  /\ error' = "Failed to solve schedule"
                  /\ UNCHANGED <<schedule, report, response>>
    /\ solved_plan' = plan
    /\ UNCHANGED <<plan, forbid, baseline, current_day, target_eod, cp, raw,
                   verification, diagnostics>>

Next ==
    \/ DpSolve
    \/ ApiSolve
    \/ \E mode \in SolverModes, installed \in BOOLEAN : Dispatch(mode, installed)
    \/ \E installed \in BOOLEAN : VerifyLexOptimal(installed)
    \/ Validate
    \/ \E d \in 0..(Horizon + 1), eod \in EodInputs : AdjustFromDay(d, eod)
    \/ \E start_day \in 0..(Horizon + 1) : SolveFrom(start_day)
    \/ \E installed \in BOOLEAN : SolveLex(installed)
    \/ \E d \in 0..(Horizon + 1), eod \in EodInputs : SetEod(d, eod)

Spec == Init /\ [][Next]_vars

----------------------------------------------------------------------------
(* Reference semantics of the constraints, by direct summation *)

RECURSIVE RefSum(_, _, _)
\* Sum of the amounts of items[1..n] dated on one of the days 1..t.
RefSum(items, n, t) ==
    IF n = 0 THEN 0
    ELSE RefSum(items, n - 1, t)
         + (IF 1 <= items[n].day /\ items[n].day <= t
            THEN items[n].amount_cents ELSE 0)

\* Net action deltas of days 1..t: one payout per working day.
RefNet(v, t) ==
    Cardinality({i \in 1..t : v[i] # "O"}) * SHIFT_NET_CENTS["Spark"]

\* start + deposits and adjustments through t - bills through t + net through t
RefClosing(p, v, t) ==
    p.start_balance_cents
      + RefSum(p.deposits, Len(p.deposits), t)
      + RefSum(p.manual_adjustments, Len(p.manual_adjustments), t)
      - RefSum(p.bills, Len(p.bills), t)
      + RefNet(v, t)

\* start + deposits and adjustments of the whole month + all net deltas
\* - bills of all days but the last
RefPreRent(p, v) ==
    p.start_balance_cents
      + RefSum(p.deposits, Len(p.deposits), Horizon)
      + RefSum(p.manual_adjustments, Len(p.manual_adjustments), Horizon)
      + RefNet(v, Horizon)
      - RefSum(p.bills, Len(p.bills), Horizon - 1)

\* every window of 7 consecutive days holds two consecutive off days
RefOffOff(v) ==
    \A s \in 0..(Horizon - WindowLen) :
        \E i \in (s + 1)..(s + WindowLen - 1) : v[i] = "O" /\ v[i + 1] = "O"

RefLocksHonoured(p, v) ==
    \A t \in 1..Horizon :
        (t <= Len(p.actions) /\ p.actions[t] # None) => v[t] = p.actions[t]

RefDay1Rule(p, v) ==
    (Len(p.actions) = 0 \/ p.actions[1] = None) => v[1] # "O"

RefFeasible(p, v) ==
    /\ RefLocksHonoured(p, v)
    /\ RefDay1Rule(p, v)
    /\ RefOffOff(v)
    /\ Abs(RefClosing(p, v, Horizon) - p.target_end_cents) <= p.band_cents
    /\ RefPreRent(p, v) >= p.rent_guard_cents
    /\ \A t \in 1..Horizon : RefClosing(p, v, t) >= 0

RefObjective(p, v) ==
    << Cardinality({i \in 1..Horizon : v[i] # "O"}),
       Cardinality({i \in 1..(Horizon - 1) : v[i] # "O" /\ v[i + 1] # "O"}),
       Abs(RefClosing(p, v, Horizon) - p.target_end_cents) >>

AllVectors == [1..Horizon -> DOMAIN SHIFT_NET_CENTS]

FeasibleSet(p) == {v \in AllVectors : RefFeasible(p, v)}

\* A schedule has been returned by the solver (by a plain solve or by the
\* second solve of a resume) for solved_plan.
Emitted == op \in {"solve", "adjust", "set_eod"} /\ outcome = "ok"

HasLock(p) == \E t \in 1..Len(p.actions) : p.actions[t] # None

----------------------------------------------------------------------------
(* The ledger builder and the validator on arbitrary action vectors *)

\* A plan with two deposits on one day, a deposit and a bill on the same
\* day, a positive and a negative adjustment, and entries dated outside the
\* month (build_prefix_arrays skips them).
PlanMixed ==
    [ start_balance_cents |-> 4000,
      target_end_cents |-> 30000,
      band_cents |-> 12000,
      rent_guard_cents |-> 0,
      deposits |-> << [day |-> 2, amount_cents |-> 1500],
                      [day |-> 2, amount_cents |-> 2500],
                      [day |-> 0, amount_cents |-> 700],
                      [day |-> Horizon, amount_cents |-> 900] >>,
      bills |-> << [day |-> 2, amount_cents |-> 6000],
                   [day |-> Horizon + 1, amount_cents |-> 1100],
                   [day |-> Horizon, amount_cents |-> 1300] >>,
      actions |-> NoLocks,
      manual_adjustments |-> << [day |-> 1, amount_cents |-> -4500],
                                [day |-> 4, amount_cents |-> 3100] >> ]

\* Plans handed to build_ledger and validate together with an arbitrary
\* action vector.
LedgerPlans ==
    DepositPlans
      \cup { p \in BasePlans : /\ p.start_balance_cents = 5000
                               /\ p.target_end_cents = 12000
                               /\ p.band_cents = 12000
                               /\ p.rent_guard_cents = 0 }
      \cup { PlanMixed, PlanS2 }

LedgerInit ==
    /\ plan \in LedgerPlans
    /\ forbid = FALSE
    /\ op = "init"
    /\ outcome = "none"
    /\ schedule = NoSchedule
    /\ layers = <<>>
    /\ solved_plan = plan
    /\ baseline = NoSchedule
    /\ current_day = 0
    /\ target_eod = 0
    /\ report = NoReport
    /\ error = ""
    /\ cp = NoCp
    /\ raw = NoRaw
    /\ response = NoResponse
    /\ verification = NoVerification
    /\ diagnostics = NoDiagnostics

\* ledger.py: build_ledger(plan, actions) on an action vector over the
\* alphabet, wrapped into a Schedule the way the callers of validate build
\* one by hand: final_closing_cents = ledger[-1].closing_cents.
BuildLedger(actions) ==
    /\ op = "init"
    /\ op' = "ledger"
    /\ outcome' = "ok"
    /\ \E ledger \in {build_ledger(plan, actions)} :
          schedule' = [actions |-> actions,
                       objective |-> RefObjective(plan, actions),
                       final_closing_cents |-> ledger[Horizon].closing_cents,
                       ledger |-> ledger]
    /\ solved_plan' = plan
    /\ UNCHANGED <<plan, forbid, layers, baseline, current_day, target_eod,
                   report, error, cp, raw,
                   response, verification, diagnostics>>

\* test_validate_failures.py / test_skill.py: action vectors of the
\* hand-built schedules: vectors over the alphabet with at most one working
\* day, and vectors holding the unknown code "S".
HandVectors ==
    { v \in AllVectors : Cardinality({t \in 1..Horizon : v[t] # "O"}) <= 1 }
      \cup { [t \in 1..Horizon |-> "S"] }
      \cup { [t \in 1..Horizon |-> IF t = k THEN "S" ELSE "O"] :
                k \in 1..Horizon }

\* test_skill.py: a Schedule built by hand, not by build_ledger: an empty
\* ledger and final_closing_cents set to the plan's target.
HandSchedule(actions) ==
    /\ op = "init"
    /\ op' = "hand"
    /\ outcome' = "ok"
    /\ schedule' = [actions |-> actions,
                    objective |-> <<0, 0, 0>>,
                    final_closing_cents |-> plan.target_end_cents,
                    ledger |-> <<>>]
    /\ solved_plan' = plan
    /\ UNCHANGED <<plan, forbid, layers, baseline, current_day, target_eod,
                   report, error, cp, raw,
                   response, verification, diagnostics>>

LedgerNext ==
    \/ \E actions \in AllVectors : BuildLedger(actions)
    \/ \E actions \in HandVectors : HandSchedule(actions)
    \/ Validate

LedgerSpec == LedgerInit /\ [][LedgerNext]_vars

\* Mutant of SequencePlan: the new adjustment is booked one day early
SequencePlanAdjustsEarly(prev_plan, prev_schedule, d, delta) ==
    [prev_plan EXCEPT
       !.actions = SubSeq(prev_schedule.actions, 1, d)
                   \o [t \in 1..(Horizon - d) |-> None],
       !.manual_adjustments =
           Append(@, [day |-> d - 1, amount_cents |-> delta])]

\* test_multi_adjustments_sequence.py lines 13-16, 24-28, 36-42: the plan of
\* one step of the sequence: days 1..d locked to the previous step's
\* schedule, the other slots unlocked, the earlier adjustments carried and
\* Adjustment(day=d, amount_cents=delta) added.
SequencePlan(prev_plan, prev_schedule, d, delta) ==
    [prev_plan EXCEPT
       !.actions = SubSeq(prev_schedule.actions, 1, d)
                   \o [t \in 1..(Horizon - d) |-> None],
       !.manual_adjustments =
           Append(@, [day |-> d, amount_cents |-> delta])]

\* Plans, days and amounts of the adjustment sequences
SequencePlans ==
    { p \in BasePlans \cup DepositPlans :
        /\ p.target_end_cents = 30000
        /\ p.band_cents = 12000
        /\ p.rent_guard_cents = 0
        /\ p.actions \in {NoLocks, [NoLocks EXCEPT ![Horizon - 1] = "Spark"]} }

SequenceDays == {1, 2, 4, 6, Horizon}

SequenceDeltas == {300, -500, 10000}

SequenceInit ==
    /\ plan \in SequencePlans
    /\ forbid = FALSE
    /\ op = "init"
    /\ outcome = "none"
    /\ schedule = NoSchedule
    /\ layers = <<>>
    /\ solved_plan = plan
    /\ baseline = NoSchedule
    /\ current_day = 0
    /\ target_eod = 0
    /\ report = NoReport
    /\ error = ""
    /\ cp = NoCp
    /\ raw = NoRaw
    /\ response = NoResponse
    /\ verification = NoVerification
    /\ diagnostics = NoDiagnostics

\* test_multi_adjustments_sequence.py: one step of the sequence on day d,
\* a later day than the previous step's: solve(plan_i) on the plan built
\* from the previous step's plan and schedule.  target_eod keeps delta.
SequenceStep(d, delta) ==
    /\ op \in {"solve", "sequence"}
    /\ outcome = "ok"
    /\ d > current_day
    /\ op' = "sequence"
    /\ current_day' = d
    /\ target_eod' = delta
    /\ baseline' = schedule
    /\ \E plan_i \in {SequencePlan(solved_plan, schedule, d, delta)} :
          /\ solved_plan' = plan_i
          /\ \E r \in {solve(plan_i, FALSE)} :
                /\ outcome' = r.status
                /\ error' = r.message
                /\ layers' = r.layers
                /\ schedule' = IF r.status = "ok" THEN r.schedule ELSE schedule
    /\ UNCHANGED <<plan, forbid, report, cp, raw, response, verification,
                   diagnostics>>

SequenceNext ==
    \/ DpSolve
    \/ \E d \in SequenceDays, delta \in SequenceDeltas : SequenceStep(d, delta)

SequenceSpec == SequenceInit /\ [][SequenceNext]_vars

\* test_security.py: amounts at, just inside and just outside the bounds of
\* to_cents, next to an ordinary amount: 90.50, +-10,000,000.00, one dollar
\* beyond either bound, and values that round onto or across the bound.
RawAmounts ==
    { [neg |-> FALSE, hundredths |-> 9050, third |-> 0],
      [neg |-> FALSE, hundredths |-> MAX_AMOUNT_CENTS, third |-> 0],
      [neg |-> TRUE, hundredths |-> MAX_AMOUNT_CENTS, third |-> 0],
      [neg |-> FALSE, hundredths |-> MAX_AMOUNT_CENTS + 100, third |-> 0],
      [neg |-> TRUE, hundredths |-> MAX_AMOUNT_CENTS + 100, third |-> 0],
      [neg |-> FALSE, hundredths |-> MAX_AMOUNT_CENTS, third |-> 4],
      [neg |-> FALSE, hundredths |-> MAX_AMOUNT_CENTS, third |-> 5],
      [neg |-> TRUE, hundredths |-> MAX_AMOUNT_CENTS - 1, third |-> 5] }

\* test_security.py: the mapping handed to plan_from_dict, its seven amounts
\* given by f.
RawOf(f) ==
    [ start_balance |-> f[1],
      target_end |-> f[2],
      band |-> f[3],
      rent_guard |-> f[4],
      deposits |-> << [day |-> 2, amount |-> f[5]] >>,
      bills |-> << [day |-> 1, name |-> "test", amount |-> f[6]] >>,
      actions |-> NoLocks,
      manual_adjustments |-> << [day |-> 3, amount |-> f[7]] >> ]

\* Mappings in which at most two of the seven amounts leave the ordinary
\* value, and one mapping whose actions list has the wrong length.
RawPlans ==
    LET ordinary == [neg |-> FALSE, hundredths |-> 9050, third |-> 0]
    IN  { RawOf([k \in 1..7 |-> IF k = i THEN a
                                 ELSE IF k = j THEN b ELSE ordinary]) :
            i \in 1..7, j \in 1..7, a \in RawAmounts, b \in RawAmounts }
          \cup { [RawOf([k \in 1..7 |-> ordinary]) EXCEPT !.actions = <<>>] }

MoneyInit ==
    /\ plan = PlanS2
    /\ forbid = FALSE
    /\ op = "init"
    /\ outcome = "none"
    /\ schedule = NoSchedule
    /\ layers = <<>>
    /\ solved_plan = plan
    /\ baseline = NoSchedule
    /\ current_day = 0
    /\ target_eod = 0
    /\ report = NoReport
    /\ error = ""
    /\ cp = NoCp
    /\ raw \in RawPlans
    /\ response = NoResponse
    /\ verification = NoVerification
    /\ diagnostics = NoDiagnostics

\* store.py: plan_from_dict(raw).
PlanFromDict ==
    /\ op = "init"
    /\ op' = "plan_from_dict"
    /\ \E r \in {plan_from_dict(raw)} :
          /\ outcome' = r.status
          /\ error' = r.message
          /\ plan' = IF r.status = "ok" THEN r.plan ELSE plan
    /\ UNCHANGED <<forbid, schedule, layers, solved_plan, baseline,
                   current_day, target_eod, report, cp, raw, response,
                   verification, diagnostics>>

MoneyNext == PlanFromDict

MoneySpec == MoneyInit /\ [][MoneyNext]_vars

----------------------------------------------------------------------------
(* Claims *)

\* C1: whenever the DP solver returns a schedule for a plan whose locks are
\* symbols of the alphabet, validate(plan, schedule) does not fail and its
\* report has ok = TRUE, every check passing.
C1_ValidateOkOnSolved ==
    (Emitted /\ report # NoReport) =>
        /\ ~report.raised
        /\ report.ok
        /\ Len(report.checks) = 5
        /\ \A i \in 1..Len(report.checks) : report.checks[i].pass

C1_Witness ==
    /\ op = "solve" /\ outcome = "ok" /\ report.ok
    /\ HasLock(plan)
    /\ schedule.objective[1] >= 3

C3_InfeasibleIffNoVector ==
    (op \in {"solve", "adjust"} /\ outcome \in {"ok", "infeasible"} /\ ~forbid)
        => (outcome = "infeasible" <=> FeasibleSet(solved_plan) = {})


C3_Witness ==
    /\ op = "solve" /\ outcome = "infeasible" /\ ~forbid
    /\ HasLock(plan)
    /\ plan.bills # <<>>
    /\ FeasibleSet(plan) = {}

\* C4: every closing of an emitted schedule is the ledger value start +
\* deposits and adjustments - bills + net deltas through that day, and >= 0.
C4_ClosingsNonNegative ==
    Emitted =>
        \A t \in 1..Horizon :
            /\ schedule.ledger[t].closing_cents
                 = RefClosing(solved_plan, schedule.actions, t)
            /\ schedule.ledger[t].closing_cents >= 0


C4_Witness ==
    /\ Emitted
    /\ \E t \in 1..Horizon :
          /\ schedule.ledger[t].bills_cents > 0
          /\ schedule.ledger[t].closing_cents >= 0
          /\ schedule.ledger[t].closing_cents < SHIFT_NET_CENTS["Spark"]

\* C5: every rolling 7-day window of an emitted schedule holds two
\* consecutive off days, also when locks fix part of the window.
C5_OffOffEveryWindow ==
    Emitted => RefOffOff(schedule.actions)


C5_Witness ==
    /\ Emitted /\ op = "adjust"
    /\ HasLock(solved_plan)
    /\ schedule.objective[1] >= 5
    /\ RefOffOff(schedule.actions)

\* C6: the pre-rent balance of the last day of an emitted schedule is at
\* least rent_guard_cents.
C6_RentGuard ==
    Emitted =>
        RefPreRent(solved_plan, schedule.actions) >= solved_plan.rent_guard_cents


C6_Witness ==
    /\ Emitted
    /\ solved_plan.rent_guard_cents > 0
    /\ RefPreRent(solved_plan, schedule.actions) >= solved_plan.rent_guard_cents
    /\ RefPreRent(solved_plan, schedule.actions)
         < solved_plan.rent_guard_cents + SHIFT_NET_CENTS["Spark"]
    /\ schedule.ledger[Horizon].bills_cents > 0

\* C7: the final closing of an emitted schedule is the last closing of its
\* ledger and lies within band_cents of the target.
C7_FinalWithinBand ==
    Emitted =>
        /\ schedule.final_closing_cents
             = RefClosing(solved_plan, schedule.actions, Horizon)
        /\ Abs(schedule.final_closing_cents - solved_plan.target_end_cents)
             <= solved_plan.band_cents


C7_Witness ==
    /\ Emitted
    /\ schedule.objective[3] > 0
    /\ schedule.objective[3] + SHIFT_NET_CENTS["Spark"] > solved_plan.band_cents
    /\ schedule.final_closing_cents < solved_plan.target_end_cents

\* C8: an emitted schedule has the locked symbol on every locked day.
C8_LocksHonoured ==
    Emitted =>
        /\ Len(schedule.actions) = Horizon
        /\ RefLocksHonoured(solved_plan, schedule.actions)


C8_Witness ==
    /\ op = "solve" /\ outcome = "ok"
    /\ plan.actions[1] = "O"
    /\ schedule.actions[1] = "O"
    /\ schedule.objective[1] >= 2

\* C9 (as claimed): in the DP transition rule and in the CP model alike, an
\* unlocked day 1 can only take a working action and a locked day 1 takes
\* exactly its lock, so that a day-1 lock to the off action is honoured.
C9_Day1RuleBothSolvers ==
    LET locked == LockedOn(plan, 1)
        dp == _allowed_actions(1, locked, forbid)
        day1 == CpDay1Domain(plan)
    IN  /\ locked = None => \A i \in 1..Len(dp) : dp[i] # "O"
        /\ locked # None => dp = <<locked>>
        /\ ~day1.raised
        /\ locked = None => (day1.domain # {} /\ "O" \notin day1.domain)
        /\ locked # None => day1.domain = {locked}

\* C10: whenever a resume (adjust_from_day or set_eod) returns a schedule,
\* the ledger closing of day d of that schedule is exactly the desired x.
C10_ResumeHitsClosing ==
    (op \in {"adjust", "set_eod"} /\ outcome = "ok") =>
        /\ schedule.ledger[current_day].closing_cents = target_eod
        /\ RefClosing(solved_plan, schedule.actions, current_day) = target_eod

C10_Witness ==
    /\ op = "adjust" /\ outcome = "ok"
    /\ current_day \in 2..(Horizon - 1)
    /\ target_eod # baseline.ledger[current_day].closing_cents
    /\ schedule.actions # baseline.actions
    /\ schedule.ledger[current_day].closing_cents = target_eod

\* C11: whenever a resume returns a schedule, its actions on days 1..d are
\* those of the baseline solve of the original plan, and its ledger closings
\* on days 1..d-1 are the baseline ledger closings.
C11_ResumePrefixIdentical ==
    (op \in {"adjust", "set_eod"} /\ outcome = "ok") =>
        /\ \A t \in 1..current_day :
              schedule.actions[t] = baseline.actions[t]
        /\ \A t \in 1..(current_day - 1) :
              /\ schedule.ledger[t].closing_cents
                    = baseline.ledger[t].closing_cents
              /\ RefClosing(solved_plan, schedule.actions, t)
                    = RefClosing(plan, baseline.actions, t)

C11_Witness ==
    /\ op \in {"adjust", "set_eod"} /\ outcome = "ok"
    /\ current_day \in 3..(Horizon - 2)
    /\ \E t \in 1..current_day : baseline.actions[t] = "Spark"
    /\ \E t \in (current_day + 1)..Horizon :
          schedule.actions[t] # baseline.actions[t]
    /\ \A t \in 1..current_day : schedule.actions[t] = baseline.actions[t]

\* C12 (as claimed): the tail re-solve of a resume, and of solve_from, keeps
\* the locks of the original plan: a day k after the locked prefix that the
\* original plan locks to an action carries that action in the returned
\* schedule.
C12_TailKeepsOriginalLocks ==
    (op \in {"adjust", "set_eod", "solve_from"} /\ outcome = "ok") =>
        LET first == IF op = "solve_from" THEN current_day
                     ELSE current_day + 1
        IN  \A k \in first..Horizon :
                plan.actions[k] # None
                    => schedule.actions[k] = plan.actions[k]

\* C14: ledger round-trip: for every schedule a solve returns,
\* build_ledger(plan, schedule.actions) equals schedule.ledger row for row,
\* and final_closing_cents is the closing of the last row.
C14_LedgerRoundTrip ==
    (op \in {"solve", "adjust", "set_eod", "solve_from"} /\ outcome = "ok") =>
        LET rebuilt == build_ledger(solved_plan, schedule.actions)
        IN  /\ Len(schedule.ledger) = Horizon
            /\ Len(rebuilt) = Horizon
            /\ \A t \in 1..Horizon : rebuilt[t] = schedule.ledger[t]
            /\ schedule.final_closing_cents
                  = schedule.ledger[Horizon].closing_cents

C14_Witness ==
    /\ op = "solve" /\ outcome = "ok"
    /\ schedule.objective[1] >= 3
    /\ \E t \in 1..Horizon :
          schedule.actions[t] # schedule.actions[Horizon + 1 - t]
    /\ \E t \in 1..Horizon : schedule.ledger[t].bills_cents > 0
    /\ build_ledger(solved_plan, schedule.actions) = schedule.ledger

\* C15: for every plan and every action vector over the alphabet, feasible or
\* not, each row of build_ledger satisfies
\* closing = opening + deposit_cents + net_cents - bills_cents, where
\* deposit_cents is the deposits plus the signed adjustments of the day.
C15_LedgerRowInvariant ==
    op = "ledger" =>
        \A t \in 1..Horizon :
            LET row == schedule.ledger[t]
            IN  /\ row.closing_cents
                     = row.opening_cents + row.deposit_cents + row.net_cents
                       - row.bills_cents
                /\ row.deposit_cents
                     = (RefSum(plan.deposits, Len(plan.deposits), t)
                        - RefSum(plan.deposits, Len(plan.deposits), t - 1))
                       + (RefSum(plan.manual_adjustments,
                                 Len(plan.manual_adjustments), t)
                          - RefSum(plan.manual_adjustments,
                                   Len(plan.manual_adjustments), t - 1))
                /\ row.bills_cents
                     = RefSum(plan.bills, Len(plan.bills), t)
                       - RefSum(plan.bills, Len(plan.bills), t - 1)
                /\ row.net_cents = SHIFT_NET_CENTS[schedule.actions[t]]

C15_Witness ==
    /\ op = "ledger"
    /\ plan = PlanMixed
    /\ ~RefFeasible(plan, schedule.actions)
    /\ schedule.actions[2] = "Spark"
    /\ schedule.ledger[2].deposit_cents = 4000
    /\ schedule.ledger[1].deposit_cents = -4500
    /\ schedule.ledger[1].closing_cents < 0
    /\ schedule.ledger[2].closing_cents
         = schedule.ledger[2].opening_cents + 4000 + 10000 - 6000

\* C16: for every plan and action vector the ledger balances are base plus
\* prefix net: the closing of day t is base[t] plus the net deltas of days
\* 1..t; the opening of day t is start + deposits and adjustments of days
\* 1..t-1 - bills of days 1..t-1 + net deltas of days 1..t-1, so the opening
\* of day 1 is the start balance and the opening of day t+1 is the closing of
\* day t; and the value the DP tests for non-negativity on day t is the
\* ledger closing of day t.
C16_LedgerIsBasePlusPrefixNet ==
    op = "ledger" =>
        LET pa == build_prefix_arrays(plan)
            v == schedule.actions
            rows == schedule.ledger
        IN  /\ rows[1].opening_cents = plan.start_balance_cents
            /\ \A t \in 1..Horizon :
                  /\ rows[t].closing_cents = pa.base[t] + RefNet(v, t)
                  /\ rows[t].closing_cents = RefClosing(plan, v, t)
                  /\ rows[t].opening_cents = RefClosing(plan, v, t - 1)
                  /\ t < Horizon =>
                        rows[t + 1].opening_cents = rows[t].closing_cents
                  /\ BalanceFeasible(pa.base, t, NetThrough(v, t))
                        <=> rows[t].closing_cents >= 0

C16_Witness ==
    /\ op = "ledger"
    /\ plan.manual_adjustments # <<>>
    /\ plan.bills # <<>>
    /\ Cardinality({t \in 1..Horizon : schedule.actions[t] = "Spark"}) >= 4
    /\ \E t \in 1..Horizon : schedule.ledger[t].closing_cents < 0
    /\ \E t \in 2..Horizon :
          /\ schedule.ledger[t].closing_cents > 0
          /\ schedule.ledger[t].bills_cents > 0
          /\ schedule.ledger[t].opening_cents
                = schedule.ledger[t - 1].closing_cents

\* C18 (as claimed): when no feasible schedule exists, the error of the DP
\* solver names the one constraint that was last active (rent guard, band,
\* off-off or non-negativity); for a plan whose day-1 bills exceed the start
\* balance plus one workday payout, it names non-negativity (on day 1).
C18_InfeasibleReasonStructured ==
    (op = "solve" /\ outcome = "infeasible") =>
        /\ ConstraintsNamed(error) \in
              { {"rent guard"}, {"band"}, {"off-off"}, {"non-negativity"} }
        /\ RefSum(plan.bills, Len(plan.bills), 1)
              > plan.start_balance_cents
                + RefSum(plan.deposits, Len(plan.deposits), 1)
                + RefSum(plan.manual_adjustments,
                         Len(plan.manual_adjustments), 1)
                + SHIFT_NET_CENTS["Spark"]
              => ConstraintsNamed(error) = {"non-negativity"}

\* C19 (as claimed): validate contains a day-1 working-action check: for a
\* schedule whose day-1 action is the off action while plan.actions[0] is not
\* locked, a check that is none of the five balance, band, guard, window and
\* alphabet checks is reported as failed, and report.ok is false.
C19_ValidateHasDay1Check ==
    ( /\ op = "ledger"
      /\ report # NoReport
      /\ ~report.raised
      /\ plan.actions[1] = None
      /\ schedule.actions[1] = "O" ) =>
        /\ ~report.ok
        /\ \E i \in 1..Len(report.checks) :
              /\ ~report.checks[i].pass
              /\ report.checks[i].name \notin
                    { "Actions valid", "Non-negative balances",
                      "Final within band", "Day-30 pre-rent guard",
                      "7-day Off,Off present" }

\* C20 (as claimed): validate checks that every lock is honoured: if the
\* schedule's action differs from a locked plan.actions slot on some day,
\* report.ok is false, also when the balance, band, rent-guard and window
\* checks all pass.
C20_ValidateChecksLocks ==
    ( /\ op = "ledger"
      /\ report # NoReport
      /\ ~report.raised
      /\ \E t \in 1..Horizon :
            plan.actions[t] # None /\ schedule.actions[t] # plan.actions[t] )
        => ~report.ok

\* C17 (as claimed): CP/DP cross-check: with the CP backend installed, the
\* CP solver and the DP solver agree on whether the plan is feasible, and
\* where both return, the objective tuple of the CP solver equals the
\* objective tuple of the DP solver.
C17_CpDpCrossCheck ==
    (op = "solve_lex" /\ cp.installed) =>
        \A dp \in {solve(plan, FALSE)} :
            /\ (cp.status = "ok") <=> (dp.status = "ok")
            /\ (cp.status = "ok" /\ dp.status = "ok")
                  => cp.objective = dp.schedule.objective

\* C21: validate is total on a schedule holding an action outside the
\* alphabet: it returns a report (it does not raise) whose "Actions valid"
\* check failed and whose ok is false, together with the verdicts of the
\* remaining four checks.
C21_ValidateTotalOnUnknownAction ==
    (/\ op = "hand"
     /\ report # NoReport
     /\ \E t \in 1..Horizon : schedule.actions[t] \notin DOMAIN SHIFT_NET_CENTS)
        => /\ ~report.raised
           /\ ~report.ok
           /\ Len(report.checks) = 5
           /\ report.checks[1].name = "Actions valid"
           /\ ~report.checks[1].pass

\* C25: a passing validation implies that the ledger rebuilt from the action
\* vector has no negative closing and ends inside the band, whatever ledger
\* and final_closing_cents the schedule carries.
C25_ValidateJudgesActionVector ==
    (/\ op \in {"ledger", "hand"}
     /\ report # NoReport
     /\ report.ok)
        => /\ \A t \in 1..Horizon :
                  RefClosing(solved_plan, schedule.actions, t) >= 0
           /\ InBand(solved_plan,
                     RefClosing(solved_plan, schedule.actions, Horizon))
\* C22: to_cents rejects an amount exactly when the absolute value of its
\* integer cents exceeds 10^9 (so +-10^9 cents are accepted and one dollar
\* beyond either bound is rejected), and plan_from_dict applies this to the
\* start balance, target, band, rent guard and every deposit, bill and
\* adjustment amount: it raises ValueError exactly when one of them is out
\* of range, and otherwise stores each amount's integer cents.
RawCents(a) ==
    LET mag == IF a.third < 5 THEN a.hundredths ELSE a.hundredths + 1
    IN  IF a.neg THEN 0 - mag ELSE mag

RawAmountsOf(data) ==
    <<data.start_balance, data.target_end, data.band, data.rent_guard>>
      \o [i \in 1..Len(data.deposits) |-> data.deposits[i].amount]
      \o [i \in 1..Len(data.bills) |-> data.bills[i].amount]
      \o [i \in 1..Len(data.manual_adjustments) |->
              data.manual_adjustments[i].amount]

PlanAmountsOf(p) ==
    <<p.start_balance_cents, p.target_end_cents, p.band_cents,
      p.rent_guard_cents>>
      \o [i \in 1..Len(p.deposits) |-> p.deposits[i].amount_cents]
      \o [i \in 1..Len(p.bills) |-> p.bills[i].amount_cents]
      \o [i \in 1..Len(p.manual_adjustments) |->
              p.manual_adjustments[i].amount_cents]

C22_ToCentsBounds ==
    (op = "plan_from_dict" /\ Len(raw.actions) = Horizon)
        => LET amounts == RawAmountsOf(raw)
               InRange(a) == /\ RawCents(a) <= 1000000000
                             /\ RawCents(a) >= -1000000000
           IN  /\ outcome \in {"ok", "ValueError"}
               /\ outcome = "ok" <=>
                      \A i \in 1..Len(amounts) : InRange(amounts[i])
               /\ outcome = "ok" =>
                      PlanAmountsOf(plan) =
                          [i \in 1..Len(amounts) |-> RawCents(amounts[i])]

\* A mapping with +10^9 cents in one amount and -10^9 cents in another was
\* accepted.
C22_Witness ==
    /\ op = "plan_from_dict"
    /\ outcome = "ok"
    /\ \E i \in 1..7, j \in 1..7 :
          /\ PlanAmountsOf(plan)[i] = 1000000000
          /\ PlanAmountsOf(plan)[j] = -1000000000
C23_AutoFallsBackCpsatFails ==
    (op = "dispatch" /\ ~diagnostics.installed)
        => /\ diagnostics.mode = "auto" =>
                 \A d \in {solve(plan, FALSE)} :
                    /\ outcome = d.status
                    /\ schedule = d.schedule
                    /\ diagnostics.solver = "dp"
                    /\ diagnostics.fallback_reason \notin {None, ""}
           /\ diagnostics.mode = "cpsat" =>
                 /\ outcome \notin {"ok", "infeasible"}
                 /\ schedule = NoSchedule
                 /\ diagnostics.solver # "dp"
                 /\ diagnostics.fallback_reason = None

\* The dispatcher ran in auto mode without the CP backend and returned a
\* schedule.
C23_Witness ==
    /\ op = "dispatch"
    /\ ~diagnostics.installed
    /\ diagnostics.mode = "auto"
    /\ outcome = "ok"
    /\ diagnostics.solver = "dp"
\* Python's order on two tuples of integers of equal length
TupleLess(x, y) ==
    \E k \in 1..Len(x) : x[k] < y[k] /\ \A j \in 1..(k - 1) : x[j] = y[j]

\* Python's order on two state tuples (last6_off, prevW, workUsed, net)
StateTupleLess(k1, k2) ==
    \/ TupleLess(k1[1], k2[1])
    \/ k1[1] = k2[1] /\ TupleLess(<<k1[2], k1[3], k1[4]>>,
                                   <<k2[2], k2[3], k2[4]>>)

\* dp.py lines 128-137: the objective of a final-layer entry
FinalObjective(p, e) ==
    LET final_closing == build_prefix_arrays(p).base[Horizon] + e.key[4]
    IN  <<e.key[3], e.b2b, Abs(final_closing - p.target_end_cents)>>

\* The final-layer state that the emitted action vector ends in
EmittedFinalKey(actions) ==
    << [i \in 1..HistoryLen |->
           IF actions[Horizon - HistoryLen + i] = "O" THEN 1 ELSE 0],
       IF actions[Horizon] # "O" THEN 1 ELSE 0,
       Cardinality({t \in 1..Horizon : actions[t] # "O"}),
       NetThrough(actions, Horizon) >>

\* C26: among the final-layer states inside the band whose objective equals
\* the minimal objective, the DP solver picks the state that is least in the
\* total order of the state tuple.
C26_TieBreakByStateTuple ==
    (op = "solve" /\ outcome = "ok")
        => \A i \in 1..Len(layers[Horizon + 1]) :
              LET e == layers[Horizon + 1][i]
              IN  (/\ InBand(solved_plan,
                             build_prefix_arrays(solved_plan).base[Horizon]
                               + e.key[4])
                   /\ FinalObjective(solved_plan, e) = schedule.objective)
                    => ~StateTupleLess(e.key,
                                       EmittedFinalKey(schedule.actions))
\* C27: the three formulations of the rolling off-off rule accept exactly
\* the same off/work vectors: the DP solver's incremental check on days
\* >= 7 over six remembered days plus today, the validator's scan of the
\* 7-day windows, and the CP model's constraint that each run of six
\* adjacent-off pairs holds at least one.
C27_OffOffFormulationsAgree ==
    op = "ledger"
        => LET off == [t \in 1..Horizon |->
                          IF schedule.actions[t] = "O" THEN 1 ELSE 0]
               dp == DpWindows(off, 1, <<>>)
               validator == WindowsScan(off, 0) = "T"
               cpsat == CpWindows([t \in 1..Horizon |-> off[t] = 1])
           IN  dp = validator /\ validator = cpsat

\* A vector with an off-off pair that the three formulations reject: the
\* pair is missing from one of the windows.
C27_Witness ==
    /\ op = "ledger"
    /\ \E t \in 1..(Horizon - 1) :
          schedule.actions[t] = "O" /\ schedule.actions[t + 1] = "O"
    /\ ~DpWindows([t \in 1..Horizon |->
                      IF schedule.actions[t] = "O" THEN 1 ELSE 0], 1, <<>>)
\* C28: in a sequence of resume-style steps on strictly increasing days,
\* each locking days 1..d to the previous step's schedule, carrying the
\* earlier adjustments and adding Adjustment(day=d, amount=delta), every
\* successful step leaves the ledger rows of the days before d equal to the
\* previous step's and moves the closing of day d by exactly delta.
C28_SequenceStepFrame ==
    (op = "sequence" /\ outcome = "ok")
        => \A ledger \in {build_ledger(solved_plan, schedule.actions)} :
              /\ \A t \in 1..(current_day - 1) : ledger[t] = baseline.ledger[t]
              /\ ledger[current_day].closing_cents =
                     baseline.ledger[current_day].closing_cents + target_eod
              /\ Len(solved_plan.manual_adjustments) >= 1
              /\ solved_plan.manual_adjustments[
                     Len(solved_plan.manual_adjustments)] =
                        [day |-> current_day, amount_cents |-> target_eod]

\* The third successful step of a sequence, on a day after day 2, with two
\* earlier adjustments carried.
C28_Witness ==
    /\ op = "sequence"
    /\ outcome = "ok"
    /\ current_day > 2
    /\ Len(solved_plan.manual_adjustments)
          >= Len(plan.manual_adjustments) + 3
    /\ baseline.actions # schedule.actions
\* Position in the previous layer of the state an entry's back-pointer names
BackIndex(prev_layer, e) == KeyIndex(prev_layer, e.back[1])

\* Entries are appended in the order of their predecessors, so an entry
\* whose predecessor comes later than that of an entry behind it has been
\* overwritten by a dominating transition.
ReplacedIn(all_layers) ==
    \E d \in 2..Len(all_layers) :
        \E i \in 1..Len(all_layers[d]), j \in 1..Len(all_layers[d]) :
            /\ i < j
            /\ BackIndex(all_layers[d - 1], all_layers[d][i])
                  > BackIndex(all_layers[d - 1], all_layers[d][j])

C30_ResponseMoneyExact ==
    (op \in {"api_solve", "set_eod"} /\ outcome = "ok")
        => /\ response = render_json(schedule)
           /\ ParseMoney(response.final_closing) = schedule.final_closing_cents
           /\ \A t \in 1..Horizon :
                 /\ ParseMoney(response.ledger[t].opening)
                       = schedule.ledger[t].opening_cents
                 /\ ParseMoney(response.ledger[t].deposits)
                       = schedule.ledger[t].deposit_cents
                 /\ ParseMoney(response.ledger[t].net)
                       = schedule.ledger[t].net_cents
                 /\ ParseMoney(response.ledger[t].bills)
                       = schedule.ledger[t].bills_cents
                 /\ ParseMoney(response.ledger[t].closing)
                       = schedule.ledger[t].closing_cents
====
